---- MODULE Spec2Model ----
(***************************************************************************)
(* Model of eee192-gps/convert_gps.py: a polling loop that reads the last  *)
(* $GPGLL sentence of a text file, converts its coordinates to decimal     *)
(* degrees, appends a record to debug.log, redraws a status line and       *)
(* sleeps.                                                                 *)
(*                                                                         *)
(* Python strings are sequences of one-character strings, so that          *)
(* indexing (term[0]), splitting and float()/int() parsing are computed.   *)
(* Python index k of a list or string is TLA+ index k+1.                   *)
(***************************************************************************)
EXTENDS Integers, Sequences, FiniteSets, TLC

\* ------------------------------------------------------------------------
\* Bounds of the model
\* ------------------------------------------------------------------------
MaxIter == 4
MaxLines == 1
MaxI == 4
MaxScanLines == 2

\* ------------------------------------------------------------------------
\* Characters and strings
\* ------------------------------------------------------------------------
DigitChars == {"0", "1", "2", "3", "4", "5", "6", "7", "8", "9"}

DigitVal(c) ==
  CASE c = "0" -> 0 [] c = "1" -> 1 [] c = "2" -> 2 [] c = "3" -> 3
    [] c = "4" -> 4 [] c = "5" -> 5 [] c = "6" -> 6 [] c = "7" -> 7
    [] c = "8" -> 8 [] c = "9" -> 9

DigitChar(d) ==
  CASE d = 0 -> "0" [] d = 1 -> "1" [] d = 2 -> "2" [] d = 3 -> "3"
    [] d = 4 -> "4" [] d = 5 -> "5" [] d = 6 -> "6" [] d = 7 -> "7"
    [] d = 8 -> "8" [] d = 9 -> "9"

\* str.isspace() characters that occur in the model's alphabet
Whitespace == {" ", "\n"}

\* Python: k < len(s)
Has(s, k) == k >= 0 /\ k < Len(s)

\* Python: s[k] for an index that exists
Get(s, k) == s[k + 1]

\* Python: list item assignment s[k] = v
Put(s, k, v) == [s EXCEPT ![k + 1] = v]

\* Python: s.startswith(p)
StartsWith(s, p) == Len(s) >= Len(p) /\ SubSeq(s, 1, Len(p)) = p

RECURSIVE SplitFrom(_, _, _, _)
SplitFrom(s, sep, i, cur) ==
  IF i > Len(s) THEN <<cur>>
  ELSE IF s[i] = sep THEN <<cur>> \o SplitFrom(s, sep, i + 1, <<>>)
  ELSE SplitFrom(s, sep, i + 1, Append(cur, s[i]))

\* Python: s.split(sep) for a one-character separator
Split(s, sep) == SplitFrom(s, sep, 1, <<>>)

RECURSIVE LStrip(_)
LStrip(s) ==
  IF s # <<>> /\ Head(s) \in Whitespace THEN LStrip(Tail(s)) ELSE s

RECURSIVE RStrip(_)
RStrip(s) ==
  IF s # <<>> /\ s[Len(s)] \in Whitespace
  THEN RStrip(SubSeq(s, 1, Len(s) - 1)) ELSE s

\* Python: s.strip()
Strip(s) == LStrip(RStrip(s))

RECURSIVE DigitsVal(_)
DigitsVal(s) ==
  IF s = <<>> THEN 0
  ELSE 10 * DigitsVal(SubSeq(s, 1, Len(s) - 1)) + DigitVal(s[Len(s)])

RECURSIVE Pow10(_)
Pow10(n) == IF n <= 0 THEN 1 ELSE 10 * Pow10(n - 1)

RECURSIVE NatToStr(_)
NatToStr(n) ==
  IF n < 10 THEN <<DigitChar(n)>>
  ELSE Append(NatToStr(n \div 10), DigitChar(n % 10))

\* ------------------------------------------------------------------------
\* float(s): surrounding whitespace is stripped; what remains must be
\* digits with at most one decimal point and at least one digit.  The
\* model's alphabet has no sign, exponent letter or underscore, and the
\* words inf and nan are not substrings of any string of the model.
\* The value is num / 10^fd.
\* ------------------------------------------------------------------------
ParseFloat(s) ==
  LET t    == Strip(s)
      dots == {i \in 1..Len(t) : t[i] = "."}
      digs == {i \in 1..Len(t) : t[i] \in DigitChars}
      good == /\ dots \cup digs = 1..Len(t)
              /\ Cardinality(dots) <= 1
              /\ digs # {}
      dot  == IF dots = {} THEN Len(t) + 1 ELSE CHOOSE i \in dots : TRUE
      ip   == SubSeq(t, 1, dot - 1)
      fp   == SubSeq(t, dot + 1, Len(t))
  IN IF good
     THEN [ok |-> TRUE, num |-> DigitsVal(ip \o fp), fd |-> Len(fp)]
     ELSE [ok |-> FALSE, num |-> 0, fd |-> 0]

\* ------------------------------------------------------------------------
\* round(x, 3) of x = DD + deci/60, in thousandths of a degree.
\* dd is DD in thousandths of a degree, h is deci in hundredths of a
\* minute, so x = (dd + h/6) / 1000 and the result is dd + round(h/6).
\* When h % 6 = 3 the exact value lies halfway between two thousandths
\* and the binary64 rounding error of DD + deci/60 decides the direction.
\* TiesDown lists the halfway cases <<dd, h>> that binary64 arithmetic
\* rounds down, among the operands that occur in the model (degrees 0, 11,
\* 48, 89 and 179 with 0.03, 0.57, 30.03 and 30.57 minutes); every other
\* halfway case of the model rounds up.  Example: round(0 + 0.57/60, 3)
\* is 0.009, round(48 + 0.57/60, 3) is 48.01.
\* ------------------------------------------------------------------------
TiesDown ==
  {<<0, 57>>, <<0, 3057>>, <<11000, 57>>, <<11000, 3057>>, <<179000, 3>>,
   <<179000, 3003>>}

Round3(dd, h) ==
  LET q == h \div 6
      r == h % 6
  IN IF r < 3 THEN dd + q
     ELSE IF r > 3 THEN dd + q + 1
     ELSE IF <<dd, h>> \in TiesDown THEN dd + q ELSE dd + q + 1

RECURSIVE StripZeros(_)
StripZeros(s) ==
  IF Len(s) > 1 /\ s[Len(s)] = "0"
  THEN StripZeros(SubSeq(s, 1, Len(s) - 1)) ELSE s

\* f"{x}" of a float x that is a whole number of thousandths v >= 0:
\* the integer part, a point, and the fraction without trailing zeros but
\* with at least one digit ("48.117", "11.5", "5.0").
FormatFloat(v) ==
  LET f  == v % 1000
      f3 == <<DigitChar(f \div 100), DigitChar((f \div 10) % 10),
              DigitChar(f % 10)>>
  IN NatToStr(v \div 1000) \o <<".">> \o StripZeros(f3)

\* ------------------------------------------------------------------------
\* convert_to_decimal_deg(term, long_or_lat)
\* Result: [exc, val]; exc = "none" when a string val is returned.
\* ------------------------------------------------------------------------
Raise(e) == [exc |-> e, val |-> <<>>]

Return(v) == [exc |-> "none", val |-> v]

\* First index of the degrees' successor: 2 characters of degrees for
\* "lat", 3 for "long".
DegLen(long_or_lat) == IF long_or_lat = "lat" THEN 2 ELSE 3

convert_to_decimal_deg(term, long_or_lat) ==
  LET n == DegLen(long_or_lat)
  IN IF long_or_lat \notin {"lat", "long"} THEN Raise("UnboundLocalError")
     ELSE IF ~Has(term, n - 1) THEN Raise("IndexError")
     ELSE LET DD == ParseFloat(SubSeq(term, 1, n))
          IN IF ~DD.ok THEN Raise("ValueError")
             ELSE IF ~Has(term, n + 1) THEN Raise("IndexError")
             ELSE IF ~Has(term, n + 4) THEN Raise("IndexError")
             ELSE LET mm_1 == <<Get(term, n), Get(term, n + 1)>>
                      mm_2 == <<Get(term, n + 3), Get(term, n + 4)>>
                      deci == ParseFloat(mm_1 \o <<".">> \o mm_2)
                  IN IF ~deci.ok THEN Raise("ValueError")
                     ELSE Return(FormatFloat(
                            Round3(DD.num * Pow10(3 - DD.fd),
                                   deci.num * Pow10(2 - deci.fd))))

\* ------------------------------------------------------------------------
\* fancy_waiting(msg, i)
\* ------------------------------------------------------------------------
RECURSIVE fancy_waiting_NoSaturation(_, _)
\* Mutant: i + 1 periods for every i >= 0, without the saturation at three
fancy_waiting_NoSaturation(msg, i) ==
  IF i <= 0 THEN msg \o <<".">>
  ELSE fancy_waiting_NoSaturation(msg, i - 1) \o <<".">>

fancy_waiting(msg, i) ==
  IF i = 0 THEN msg \o <<".">>
  ELSE IF i = 1 THEN msg \o <<".", ".">>
  ELSE IF i = 2 THEN msg \o <<".", ".", ".">>
  ELSE msg \o <<".", ".", ".">>

\* ------------------------------------------------------------------------
\* Inputs: command line, clock and the polled file
\* ------------------------------------------------------------------------
\* Values of the -t/--time option on the command line; <<>> is "not given"
TimeArgs == {<<>>, <<"2">>, <<"2", ".", "9", "9">>, <<"-", "1">>}

\* strftime("%H:%M:%S", localtime()) readings.  No operation of the program
\* looks into the value; it is copied to the log record and the terminal.
Times == {"10:00:00"}

GPGLL == <<"$", "G", "P", "G", "L", "L">>

WaitingMsg ==
  <<"W", "a", "i", "t", "i", "n", "g", " ", "f", "o", "r", " ",
    "d", "a", "t", "a">>

Lat4807 == <<"4", "8", "0", "7", ".", "0", "3", "8">>

Lon01131 == <<"0", "1", "1", "3", "1", ".", "0", "0", "0">>

\* a latitude whose first two fraction digits put DD + deci/60 halfway
\* between two thousandths: 0.57/60 = 0.0095
Lat0000 == <<"0", "0", "0", "0", ".", "5", "7", "0", "1">>

LatBad == <<"4", "8", "x", "7", ".", "0", "3", "8">>

LonShort == <<"0", "1", "1", "3", "1", ".", "0">>

RECURSIVE JoinComma(_)
JoinComma(fs) ==
  IF Len(fs) = 1 THEN fs[1] ELSE fs[1] \o <<",">> \o JoinComma(Tail(fs))

\* a text line of the file: the fields joined by commas, and a newline
Line(fs) == JoinComma(fs) \o <<"\n">>

\* Lines that start with $GPGLL
GllLines ==
  { Line(<<GPGLL, Lat4807, <<"N">>, Lon01131, <<"E">>, <<"A">>>>),
    Line(<<GPGLL, Lat0000, <<"S">>, Lon01131, <<"W">>, <<"A">>>>),
    Line(<<GPGLL, <<>>, <<"N">>, Lon01131, <<"E">>, <<"V">>>>),
    Line(<<GPGLL, Lat4807, <<"N">>, <<>>, <<"E">>, <<"V">>>>),
    Line(<<GPGLL, <<>>, <<>>, <<>>, <<>>, <<"V">>>>),
    Line(<<GPGLL, Lat4807, <<"N">>, Lon01131>>),
    Line(<<GPGLL, LatBad, <<"N">>, Lon01131, <<"E">>, <<"A">>>>),
    Line(<<GPGLL, Lat4807, <<"N">>, LonShort, <<"E">>, <<"A">>>>),
    Line(<<GPGLL>>) }

\* A line that does not start with $GPGLL
OtherLine == Line(<<<<"$", "G", "P", "G", "G", "A">>, Lat4807, <<"N">>>>)

FileLines == GllLines \cup {OtherLine}

RECURSIVE SeqsUpTo(_, _)
SeqsUpTo(S, n) ==
  IF n = 0 THEN {<<>>}
  ELSE LET shorter == SeqsUpTo(S, n - 1)
       IN shorter \cup {Append(s, x) : s \in shorter, x \in S}

\* The file does not exist (open raises)
Missing == <<<<"missing">>>>

\* Contents of the polled file at the time of a read
Files == SeqsUpTo(FileLines, MaxLines) \cup {Missing}

\* ------------------------------------------------------------------------
\* Program state
\* ------------------------------------------------------------------------
VARIABLES
  pc,          \* "parse": before parse_args; "loop": in while True; "exited"
  argTime,     \* the -t/--time value on the command line
  TIME_DELAY,  \* args["time"] in hundredths of a second (0 before parsing)
  error,       \* the error flag
  it,          \* the waiting-animation counter
  parts,       \* the retained split; <<>> while the name is unbound
  log,         \* records appended to debug.log since the start
  n,           \* number of iterations started
  split,       \* parts as line 58 found it in the last iteration
  exc,         \* the exception the last iteration's try block raised
  events,      \* what the last step did, in order: convert calls, appends
               \* to debug.log, printed lines, sleep calls
  fnArg,       \* argument of the last direct function application
  fnRes        \* its result

vars ==
  <<pc, argTime, TIME_DELAY, error, it, parts, log, n, split, exc, events,
    fnArg, fnRes>>

\* Lines 44-45 (error = 0, it = -1) are part of the initial state: nothing
\* reads either name before them.

\* parts before the first assignment (a NameError when read)
Unbound == <<>>

\* split when the iteration did not reach line 58
NoSplit == <<<<"nosplit">>>>

NoArg == [f |-> "none"]

Init ==
  /\ pc = "parse"
  /\ argTime \in TimeArgs
  /\ TIME_DELAY = 0
  /\ error = 0
  /\ it = -1
  /\ parts = Unbound
  /\ log = <<>>
  /\ n = 0
  /\ split = NoSplit
  /\ exc = "none"
  /\ events = <<>>
  /\ fnArg = NoArg
  /\ fnRes = <<>>

\* ------------------------------------------------------------------------
\* Lines 6-11: argument parsing
\* ------------------------------------------------------------------------
\* Mutant: the digits before a decimal point are taken and the rest is
\* dropped, as int(float(s)) would for a non-negative s
ParseInt_Truncating(s) ==
  LET t    == Strip(s)
      dots == {i \in 1..Len(t) : t[i] = "."}
      cut  == IF dots = {} THEN Len(t) + 1 ELSE CHOOSE i \in dots : TRUE
      body == SubSeq(t, 1, cut - 1)
      good == body # <<>> /\ \A i \in 1..Len(body) : body[i] \in DigitChars
  IN IF good THEN [ok |-> TRUE, val |-> DigitsVal(body)]
     ELSE [ok |-> FALSE, val |-> 0]

\* int(s) for a string: optional sign, then one or more digits
ParseInt(s) ==
  LET t    == Strip(s)
      neg  == t # <<>> /\ Head(t) = "-"
      body == IF t # <<>> /\ Head(t) \in {"-", "+"} THEN Tail(t) ELSE t
      good == body # <<>> /\ \A i \in 1..Len(body) : body[i] \in DigitChars
  IN IF good
     THEN [ok |-> TRUE,
           val |-> IF neg THEN 0 - DigitsVal(body) ELSE DigitsVal(body)]
     ELSE [ok |-> FALSE, val |-> 0]

\* default=1.01 of --time, in hundredths of a second.  argparse applies
\* type= to a default only when the default is a string, so the float
\* reaches args["time"] as it is.
DefaultTime == 101

\* Mutant: the default goes through int() like a value from the command
\* line, 1.01 becoming 1
ArgTime_TruncDefault(a) ==
  IF a = <<>> THEN [ok |-> TRUE, val |-> 100 * (DefaultTime \div 100)]
  ELSE LET r == ParseInt(a)
       IN [ok |-> r.ok, val |-> 100 * r.val]

\* args["time"] for a command line: [ok, val]; ok = FALSE when
\* parse_args() reports "invalid int value" and exits with status 2
ArgTime(a) ==
  IF a = <<>> THEN [ok |-> TRUE, val |-> DefaultTime]
  ELSE LET r == ParseInt(a)
       IN [ok |-> r.ok, val |-> 100 * r.val]

ParseArgs ==
  /\ pc = "parse"
  /\ LET r == ArgTime(argTime)
     IN IF r.ok
        THEN /\ pc' = "loop"
             /\ TIME_DELAY' = r.val
             /\ events' = <<>>
        ELSE /\ pc' = "exited"
             /\ TIME_DELAY' = TIME_DELAY
             /\ events' = <<[op |-> "exit", status |-> 2]>>
  /\ UNCHANGED <<argTime, error, it, parts, log, n, split, exc, fnArg,
                 fnRes>>

\* ------------------------------------------------------------------------
\* Lines 46-80: one iteration of while True.
\* The body of try is a chain of steps over a context c; a step that finds
\* c.exc # "none" does nothing, which is how a raised exception skips the
\* rest of the try block on its way to the handler.
\* ------------------------------------------------------------------------
\* Mutant: the counter is incremented and never reset
NextIt_NoWrap(i) == i + 1

\* Lines 47-49
NextIt(i) == IF i = 2 THEN 0 ELSE i + 1

Throw(c, e) == [c EXCEPT !.exc = e]

Emit(c, ev) == [c EXCEPT !.events = Append(@, ev)]

\* Line 52: open(filename, 'r', ...)
OpenFile(c, file) ==
  IF c.exc # "none" THEN c
  ELSE IF file = Missing THEN Throw(c, "FileNotFoundError")
  ELSE c

RECURSIVE LastGpgll_First(_, _)
RECURSIVE LastGpgll(_, _)
\* Mutant: the first matching line is kept; later ones do not assign
LastGpgll_First(lines, before) ==
  IF lines = <<>> THEN before
  ELSE IF StartsWith(Head(lines), GPGLL) THEN Split(Head(lines), ",")
  ELSE LastGpgll_First(Tail(lines), before)

\* Lines 54-57: the split of the last line that starts with $GPGLL, or
\* the value parts had before when there is none
LastGpgll(lines, before) ==
  IF lines = <<>> THEN before
  ELSE LET line == lines[Len(lines)]
       IN IF StartsWith(line, GPGLL) THEN Split(line, ",")
          ELSE LastGpgll(SubSeq(lines, 1, Len(lines) - 1), before)

\* Line 55: some line of the file starts with $GPGLL
HasGpgll(lines) == \E k \in 1..Len(lines) : StartsWith(lines[k], GPGLL)

\* Mutant: parts is unbound again when no line matches
ScanFile_Resets(c, file) ==
  IF c.exc # "none" THEN c
  ELSE LET p == LastGpgll(file, Unbound)
       IN Emit([c EXCEPT !.parts = p, !.split = p],
               [op |-> "scan", matched |-> HasGpgll(file)])

\* Lines 53-57: the whole file is read; parts is assigned only by a
\* matching line
ScanFile(c, file) ==
  IF c.exc # "none" THEN c
  ELSE LET p == LastGpgll(file, c.parts)
       IN Emit([c EXCEPT !.parts = p, !.split = p],
               [op |-> "scan", matched |-> HasGpgll(file)])

\* Line 61: flush_to_file(f"...{current_time}, {parts[1]}, {parts[2]},
\* {parts[3]}, {parts[4]}\n")
LogRecord(now, p) ==
  [time |-> now, p1 |-> Get(p, 1), p2 |-> Get(p, 2), p3 |-> Get(p, 3),
   p4 |-> Get(p, 4)]

\* Lines 19-22: open(log_file, "a") raises an OSError when debug.log
\* cannot be opened for appending
flush_to_file(c, msg, logOpens) ==
  IF ~logOpens THEN Throw(c, "PermissionError")
  ELSE Emit([c EXCEPT !.log = Append(@, msg)],
            [op |-> "append", msg |-> msg])

\* Mutant: the hemisphere letter next to the field gives the value a sign
ConvertField_Signed(c, k, axis) ==
  IF c.exc # "none" THEN c
  ELSE LET term == Get(c.parts, k)
           r    == convert_to_decimal_deg(term, axis)
           c1   == Emit(c, [op |-> "convert", term |-> term, axis |-> axis,
                            ok |-> r.exc = "none"])
           neg  == /\ Has(c.parts, k + 1)
                   /\ Get(c.parts, k + 1) \in {<<"S">>, <<"W">>}
       IN IF r.exc # "none" THEN Throw(c1, r.exc)
          ELSE [c1 EXCEPT !.parts =
                  Put(@, k, IF neg THEN <<"-">> \o r.val ELSE r.val)]

\* Mutant: the converted value is not stored back into the list
ConvertField_NoStore(c, k, axis) ==
  IF c.exc # "none" THEN c
  ELSE LET term == Get(c.parts, k)
           r    == convert_to_decimal_deg(term, axis)
           c1   == Emit(c, [op |-> "convert", term |-> term, axis |-> axis,
                            ok |-> r.exc = "none"])
       IN IF r.exc # "none" THEN Throw(c1, r.exc) ELSE c1

\* Lines 59-60: parts[k] = convert_to_decimal_deg(parts[k], axis)
ConvertField(c, k, axis) ==
  IF c.exc # "none" THEN c
  ELSE LET term == Get(c.parts, k)
           r    == convert_to_decimal_deg(term, axis)
           c1   == Emit(c, [op |-> "convert", term |-> term, axis |-> axis,
                            ok |-> r.exc = "none"])
       IN IF r.exc # "none" THEN Throw(c1, r.exc)
          ELSE [c1 EXCEPT !.parts = Put(@, k, r.val)]

\* Mutant: the record is written whether or not the conversions raised
LogFix_Always(c, now, logOpens) ==
  IF ~Has(c.parts, 4) THEN c
  ELSE flush_to_file(c, LogRecord(now, c.parts), logOpens)

\* Line 61
LogFix(c, now, logOpens) ==
  IF c.exc # "none" THEN c
  ELSE IF ~Has(c.parts, 4) THEN Throw(c, "IndexError")
  ELSE flush_to_file(c, LogRecord(now, c.parts), logOpens)

\* Mutant: a field that is not empty is converted even when the other one
\* is empty
ConvertAndLog_Either(c, now, logOpens) ==
  IF c.exc # "none" THEN c
  ELSE IF c.parts = Unbound THEN Throw(c, "NameError")
  ELSE IF ~Has(c.parts, 1) THEN Throw(c, "IndexError")
  ELSE IF ~Has(c.parts, 3) THEN Throw(c, "IndexError")
  ELSE IF Get(c.parts, 1) = <<>> /\ Get(c.parts, 3) = <<>> THEN c
  ELSE IF Get(c.parts, 3) = <<>> THEN ConvertField(c, 1, "lat")
  ELSE IF Get(c.parts, 1) = <<>> THEN ConvertField(c, 3, "long")
  ELSE CHOOSE r \in
         { LogFix(c2, now, logOpens) : c2 \in
         { ConvertField(c1, 3, "long") : c1 \in
         { ConvertField(c, 1, "lat") }}} : TRUE

\* Lines 58-61
ConvertAndLog(c, now, logOpens) ==
  IF c.exc # "none" THEN c
  ELSE IF c.parts = Unbound THEN Throw(c, "NameError")
  ELSE IF ~Has(c.parts, 1) THEN Throw(c, "IndexError")
  ELSE IF Get(c.parts, 1) = <<>> THEN c
  ELSE IF ~Has(c.parts, 3) THEN Throw(c, "IndexError")
  ELSE IF Get(c.parts, 3) = <<>> THEN c
  ELSE CHOOSE r \in
         { LogFix(c2, now, logOpens) : c2 \in
         { ConvertField(c1, 3, "long") : c1 \in
         { ConvertField(c, 1, "lat") }}} : TRUE

\* Mutant: an empty field is left empty
FillWaiting_Skips(c, k, i) ==
  IF c.exc # "none" THEN c
  ELSE IF ~Has(c.parts, k) THEN Throw(c, "IndexError")
  ELSE c

\* Lines 62-63 (k = 1) and 64-65 (k = 3)
FillWaiting(c, k, i) ==
  IF c.exc # "none" THEN c
  ELSE IF ~Has(c.parts, k) THEN Throw(c, "IndexError")
  ELSE IF Get(c.parts, k) = <<>>
  THEN Emit([c EXCEPT !.parts = Put(@, k, fancy_waiting(WaitingMsg, i))],
            [op |-> "waiting", k |-> k, i |-> i])
  ELSE c

\* Mutant: the flag is not reset after the two-line rewind is chosen
ChooseRewind_KeepsFlag(c) ==
  IF c.exc # "none" THEN c
  ELSE IF c.error = 1
  THEN [c EXCEPT !.start = "ESC[2F", !.end = "ESC[0J"]
  ELSE [c EXCEPT !.start = "ESC[1F", !.end = "ESC[0K"]

\* Lines 66-72
ChooseRewind(c) ==
  IF c.exc # "none" THEN c
  ELSE IF c.error = 1
  THEN [c EXCEPT !.start = "ESC[2F", !.end = "ESC[0J", !.error = 0]
  ELSE [c EXCEPT !.start = "ESC[1F", !.end = "ESC[0K"]

\* Lines 73-74
Render(c, now) ==
  IF c.exc # "none" THEN c
  ELSE IF ~Has(c.parts, 4) THEN Throw(c, "IndexError")
  ELSE Emit(c, [op |-> "status", start |-> c.start, time |-> now,
                p1 |-> Get(c.parts, 1),
                comma |-> IF Get(c.parts, 2) # <<>> THEN "," ELSE "",
                p2 |-> Get(c.parts, 2), p3 |-> Get(c.parts, 3),
                p4 |-> Get(c.parts, 4), end |-> c.end])

\* Mutant: sleep is called after the try statement, raised or not
Sleep_Always(c, secs) ==
  LET c1 == Emit(c, [op |-> "sleep", secs |-> secs])
  IN IF c.exc = "none" /\ secs < 0 THEN Throw(c1, "ValueError") ELSE c1

\* Line 75: time.sleep raises ValueError for a negative length
Sleep(c, secs) ==
  IF c.exc # "none" THEN c
  ELSE LET c1 == Emit(c, [op |-> "sleep", secs |-> secs])
       IN IF secs < 0 THEN Throw(c1, "ValueError") ELSE c1

\* Mutant: a handler that lets NameError through
Catches_NotNameError(e) == e \notin {"none", "NameError"}

\* Mutant: except OSError in place of except Exception
Catches_OnlyOSError(e) == e \in {"FileNotFoundError", "PermissionError"}

\* except Exception catches every exception class the try block raises
\* here (NameError, IndexError, ValueError and OSError are subclasses)
Catches(e) == e # "none"

\* Mutant: the handler prints the error block and leaves the flag alone
Handler_NoFlag(c, now) ==
  IF Catches(c.exc)
  THEN [Emit(Emit(c, [op |-> "errline1", start |-> "ESC[2F", time |-> now]),
             [op |-> "errline2", exc |-> c.exc])
        EXCEPT !.caught = TRUE]
  ELSE c

\* Lines 76-80.  The two print calls are taken to succeed (the terminal
\* stays open); nothing encloses them.
Handler(c, now) ==
  IF Catches(c.exc)
  THEN [Emit(Emit(c, [op |-> "errline1", start |-> "ESC[2F", time |-> now]),
             [op |-> "errline2", exc |-> c.exc])
        EXCEPT !.error = 1, !.caught = TRUE]
  ELSE c

\* Lines 51-75, first step innermost.  Each step's result is bound to a
\* variable before the next step reads it.
TryBody(c, file, now, logOpens, i, secs) ==
  CHOOSE r \in
    { Sleep(c8, secs) : c8 \in
    { Render(c7, now) : c7 \in
    { ChooseRewind(c6) : c6 \in
    { FillWaiting(c5, 3, i) : c5 \in
    { FillWaiting(c4, 1, i) : c4 \in
    { ConvertAndLog(c3, now, logOpens) : c3 \in
    { ScanFile(c2, file) : c2 \in
    { OpenFile(c, file) }}}}}}}} : TRUE

Iteration(file, now, logOpens) ==
  /\ pc = "loop"
  /\ n < MaxIter
  /\ \E c0 \in {[parts |-> parts, error |-> error, log |-> log,
                 split |-> NoSplit, events |-> <<>>, exc |-> "none",
                 caught |-> FALSE, start |-> "", end |-> ""]} :
       \E b \in {TryBody(c0, file, now, logOpens, NextIt(it), TIME_DELAY)} :
         \E c \in {Handler(b, now)} :
           /\ it' = NextIt(it)
           /\ parts' = c.parts
           /\ error' = c.error
           /\ log' = c.log
           /\ split' = c.split
           /\ exc' = c.exc
           /\ events' = c.events
           \* an exception that the handler does not catch ends the process
           /\ pc' = IF c.exc # "none" /\ ~c.caught THEN "exited" ELSE "loop"
  /\ n' = n + 1
  /\ UNCHANGED <<argTime, TIME_DELAY, fnArg, fnRes>>

Poll ==
  \E file \in Files, now \in Times, logOpens \in BOOLEAN :
    Iteration(file, now, logOpens)

Next == ParseArgs \/ Poll

Spec == Init /\ [][Next]_vars

\* ------------------------------------------------------------------------
\* Direct applications of the two functions, over bounded argument sets
\* ------------------------------------------------------------------------
Degs2 == {<<"0", "0">>, <<"4", "8">>, <<"8", "9">>}

Degs3 == {<<"0", "0", "0">>, <<"0", "1", "1">>, <<"1", "7", "9">>}

Mins == {<<"0", "0">>, <<"0", "7">>, <<"3", "0">>}

Frac2 == {<<"0", "0">>, <<"0", "3">>, <<"3", "8">>, <<"5", "7">>}

Tail2 == {<<"0", "0">>, <<"0", "1">>, <<"9", "9">>}

\* DDMM.mmmm
LatTerms ==
  {d \o m \o <<".">> \o f \o t : d \in Degs2, m \in Mins, f \in Frac2,
                                 t \in Tail2}

\* DDDMM.mmmm
LongTerms ==
  {d \o m \o <<".">> \o f \o t : d \in Degs3, m \in Mins, f \in Frac2,
                                 t \in Tail2}

\* Strings without the fixed-width layout, among them the strings an
\* iteration leaves in parts
OtherTerms ==
  {<<>>, <<"4", "8">>, <<"4", "8", "0", "7", ".", "0">>, Lat4807, Lon01131,
   LatBad, LonShort, <<"4", "8", ".", "1", "1", "7">>,
   <<"1", "1", ".", "5", "1", "7">>, <<"1", "0", "0", ".", "6", "6", "7">>,
   WaitingMsg \o <<".">>, Lon01131 \o <<"\n">>, LonShort \o <<"\n">>}

Terms == LatTerms \cup LongTerms \cup OtherTerms

Msgs == {WaitingMsg, <<>>, <<"a", ".">>}

InitFn ==
  /\ pc = "fn"
  /\ argTime = <<>>
  /\ TIME_DELAY = 0
  /\ error = 0
  /\ it = -1
  /\ parts = Unbound
  /\ log = <<>>
  /\ n = 0
  /\ split = NoSplit
  /\ exc = "none"
  /\ events = <<>>
  /\ fnArg = NoArg
  /\ fnRes = <<>>

ApplyConvert ==
  /\ pc = "fn"
  /\ \E term \in Terms, axis \in {"lat", "long"} :
       /\ fnArg' = [f |-> "convert", term |-> term, axis |-> axis]
       /\ fnRes' = convert_to_decimal_deg(term, axis)
  /\ UNCHANGED <<pc, argTime, TIME_DELAY, error, it, parts, log, n, split,
                 exc, events>>

ApplyFancy ==
  /\ pc = "fn"
  /\ \E msg \in Msgs, i \in (0 - MaxI)..MaxI :
       /\ fnArg' = [f |-> "fancy", msg |-> msg, i |-> i]
       /\ fnRes' = fancy_waiting(msg, i)
  /\ UNCHANGED <<pc, argTime, TIME_DELAY, error, it, parts, log, n, split,
                 exc, events>>

NextFn == ApplyConvert \/ ApplyFancy

SpecFn == InitFn /\ [][NextFn]_vars

\* ------------------------------------------------------------------------
\* One iteration of the loop applied to a file of up to MaxScanLines lines,
\* from each value of parts, error and it that an earlier iteration leaves
\* ------------------------------------------------------------------------
ScanFiles == SeqsUpTo(FileLines, MaxScanLines)

\* Lines 46-80 on the local state (before, e, i); the record that results
IterationOn(before, e, file, now, logOpens, i, secs) ==
  CHOOSE r \in
    { Handler(b, now) : b \in
    { TryBody(c0, file, now, logOpens, i, secs) : c0 \in
    { [parts |-> before, error |-> e, log |-> <<>>, split |-> NoSplit,
       events |-> <<>>, exc |-> "none", caught |-> FALSE, start |-> "",
       end |-> ""] }}} : TRUE

\* Values of parts at the start of an iteration: unbound, or what the
\* first iteration leaves when the file holds one $GPGLL line
PriorParts ==
  {Unbound} \cup
    { IterationOn(Unbound, 0, <<l>>, "10:00:00", TRUE, 0, DefaultTime).parts :
        l \in GllLines }

InitIter ==
  /\ pc = "iter"
  /\ argTime = <<>>
  /\ TIME_DELAY = DefaultTime
  /\ error = 0
  /\ it = -1
  /\ parts = Unbound
  /\ log = <<>>
  /\ n = 0
  /\ split = NoSplit
  /\ exc = "none"
  /\ events = <<>>
  /\ fnArg = NoArg
  /\ fnRes = <<>>

ApplyIteration ==
  /\ pc = "iter"
  /\ \E file \in ScanFiles, before \in PriorParts, e \in {0, 1},
        now \in Times, logOpens \in BOOLEAN :
       /\ fnArg' = [f |-> "iteration", file |-> file, before |-> before,
                    error |-> e, logOpens |-> logOpens]
       /\ fnRes' = IterationOn(before, e, file, now, logOpens, 0,
                               TIME_DELAY)
  /\ pc' = "done"
  /\ UNCHANGED <<argTime, TIME_DELAY, error, it, parts, log, n, split, exc,
                 events>>

NextIter == ApplyIteration

SpecIter == InitIter /\ [][NextIter]_vars

\* ------------------------------------------------------------------------
\* Properties
\* ------------------------------------------------------------------------
EventsOf(op) == SelectSeq(events, LAMBDA e : e.op = op)

\* Lines written to the terminal by the last iteration, in order
Prints ==
  SelectSeq(events, LAMBDA e : e.op \in {"status", "errline1", "errline2"})

\* An iteration has run, and it was the last step
Ran == pc \in {"loop", "exited"} /\ n > 0

\* The last iteration ended in the exception handler
EndedInHandler ==
  /\ Ran
  /\ Len(events) >= 2
  /\ events[Len(events)].op = "errline2"
  /\ events[Len(events) - 1].op = "errline1"

\* The last iteration printed exactly the two-line error block
ErrorBlockOnly ==
  /\ Len(Prints) = 2
  /\ Prints[1] = [op |-> "errline1", start |-> "ESC[2F",
                  time |-> Prints[1].time]
  /\ Prints[2] = [op |-> "errline2", exc |-> exc]

HasSplit == split # NoSplit /\ split # Unbound

\* C1 (as claimed): after an iteration that ends in the exception handler,
\* the next iteration's terminal output starts by rewinding two lines and
\* the error flag is 0 when that iteration has finished, whether it
\* succeeds or fails itself.
C1_FlagAlwaysReset ==
  [][(EndedInHandler /\ n' = n + 1)
       => (Prints'[1].start = "ESC[2F" /\ error' = 0)]_vars

\* C1 (amended): after an iteration that ends in the exception handler,
\* the next iteration's terminal output starts by rewinding two lines
\* (ESC[2F on the status line, or on the error block when it raises before
\* rendering); the error flag is 0 afterwards exactly when that iteration
\* does not itself end in the handler, and 1 when it does.
C1_FlagResetUnlessRaised ==
  [][(EndedInHandler /\ n' = n + 1)
       => /\ Prints'[1].start = "ESC[2F"
          /\ (error' = 0 <=> ~EndedInHandler')
          /\ (error' = 1 <=> EndedInHandler')]_vars

\* A status line drawn with the two-line rewind by an iteration that did
\* not raise: the iteration before it ended in the handler
C1_Witness ==
  /\ Ran
  /\ ~EndedInHandler
  /\ error = 0
  /\ Len(EventsOf("status")) = 1
  /\ EventsOf("status")[1].start = "ESC[2F"

\* C2: when the split has at least 5 fields and an empty latitude or
\* longitude field, the status line shows fancy_waiting("Waiting for
\* data", counter) for that axis and not a number, the converter is not
\* called, and nothing is appended to debug.log in that iteration.
C2_EmptyFieldWaits ==
  (Ran /\ HasSplit /\ Len(split) >= 5
       /\ (Get(split, 1) = <<>> \/ Get(split, 3) = <<>>))
    => /\ EventsOf("convert") = <<>>
       /\ EventsOf("append") = <<>>
       /\ Len(EventsOf("status")) = 1
       /\ LET st == EventsOf("status")[1]
          IN /\ Get(split, 1) = <<>>
                  => /\ st.p1 = fancy_waiting(WaitingMsg, it)
                     /\ Head(st.p1) \notin DigitChars
             /\ Get(split, 3) = <<>>
                  => /\ st.p3 = fancy_waiting(WaitingMsg, it)
                     /\ Head(st.p3) \notin DigitChars

C2_Witness ==
  /\ Ran /\ HasSplit /\ Len(split) >= 5
  /\ Get(split, 1) = <<>>
  /\ Get(split, 3) # <<>>
  /\ Len(EventsOf("status")) = 1
  /\ EventsOf("status")[1].p1 = WaitingMsg \o <<".", ".">>

\* Both coordinate fields of the split are non-empty
BothPresent ==
  HasSplit /\ Len(split) >= 4 /\ Get(split, 1) # <<>> /\ Get(split, 3) # <<>>

\* Latitude, then longitude were converted without raising
BothConverted ==
  LET cv == EventsOf("convert")
  IN /\ Len(cv) = 2
     /\ cv[1].axis = "lat" /\ cv[1].ok
     /\ cv[2].axis = "long" /\ cv[2].ok

\* debug.log keeps what it had and gains at most one record
LogGrowsByAtMostOne ==
  \/ log' = log
  \/ Len(log') = Len(log) + 1 /\ SubSeq(log', 1, Len(log)) = log

\* C3 (as claimed): debug.log only grows, by at most one record per
\* iteration, and an iteration appends a record if and only if both
\* coordinate fields of its split are non-empty and both conversions
\* complete without raising.
C3_AppendIffConverted ==
  [][n' = n + 1
       => /\ LogGrowsByAtMostOne
          /\ (log' # log <=> (BothPresent' /\ BothConverted'))]_vars

\* C3 (amended): debug.log only grows, by at most one record per
\* iteration, and an iteration appends a record if and only if both
\* coordinate fields of its split are non-empty, both conversions complete
\* without raising, the split has a fifth field (index 4, which the record
\* formats) and debug.log opens for appending.
C3_AppendIffConvertedAndFormatted ==
  [][n' = n + 1
       => /\ LogGrowsByAtMostOne
          /\ (log' # log <=> /\ BothPresent'
                             /\ BothConverted'
                             /\ Len(split') >= 5
                             /\ exc' # "PermissionError")
          /\ (log' # log <=> EventsOf("append")' # <<>>)]_vars

C3_Witness ==
  /\ Ran
  /\ BothPresent /\ BothConverted
  /\ Len(EventsOf("append")) = 1
  /\ log # <<>>
  /\ log[Len(log)] = EventsOf("append")[1].msg

\* ---- reference for C4 ----
IsDigits(s) == \A i \in 1..Len(s) : s[i] \in DigitChars

\* DDMM.mmmm for "lat", DDDMM.mmmm for "long"
ValidTerm(term, axis) ==
  LET d == DegLen(axis)
  IN /\ Len(term) = d + 7
     /\ term[d + 3] = "."
     /\ IsDigits(SubSeq(term, 1, d + 2))
     /\ IsDigits(SubSeq(term, d + 4, d + 7))

\* round(DD + MM.mmmm/60, 3) in thousandths of a degree, all four
\* fraction digits taking part: t is MM.mmmm in ten-thousandths of a
\* minute and the value is dd + t/600.  A halfway case has mmmm ending in
\* 00 and is the computation of Round3.
RefThousandths(term, axis) ==
  LET d  == DegLen(axis)
      dd == 1000 * DigitsVal(SubSeq(term, 1, d))
      t  == DigitsVal(SubSeq(term, d + 1, d + 2) \o SubSeq(term, d + 4, d + 7))
      q  == t \div 600
      r  == t % 600
  IN IF r < 300 THEN dd + q
     ELSE IF r > 300 THEN dd + q + 1
     ELSE IF <<dd, t \div 100>> \in TiesDown THEN dd + q ELSE dd + q + 1

\* C4: for every valid latitude string DDMM.mmmm (longitude string
\* DDDMM.mmmm) convert_to_decimal_deg returns round(DD + MM.mmmm/60, 3),
\* all four fractional-minute digits taking part.
C4_AllFractionDigits ==
  (pc = "fn" /\ fnArg.f = "convert" /\ ValidTerm(fnArg.term, fnArg.axis))
    => fnRes = Return(FormatFloat(RefThousandths(fnArg.term, fnArg.axis)))

\* C5: fancy_waiting(msg, i) is msg followed by exactly i+1 periods for
\* i in {0,1,2} and by exactly three periods for every other integer i,
\* msg itself unaltered.
C5_FancyWaiting ==
  (pc = "fn" /\ fnArg.f = "fancy")
    => LET k == IF fnArg.i \in {0, 1, 2} THEN fnArg.i + 1 ELSE 3
           m == Len(fnArg.msg)
       IN /\ Len(fnRes) = m + k
          /\ SubSeq(fnRes, 1, m) = fnArg.msg
          /\ \A j \in (m + 1)..(m + k) : fnRes[j] = "."

C5_Witness ==
  /\ pc = "fn" /\ fnArg.f = "fancy"
  /\ fnArg.i = 3
  /\ fnArg.msg = WaitingMsg
  /\ fnRes = WaitingMsg \o <<".", ".", ".">>

\* C6 (as claimed): every exception raised in an iteration is caught and
\* the loop continues, except the NameError of the never-assigned split,
\* which escapes the handler and stops the process.
C6_NameErrorEscapes ==
  Ran => /\ exc = "NameError" => pc = "exited"
         /\ exc \notin {"none", "NameError"} => (pc = "loop" /\ error = 1)

\* C6 (amended): every exception raised inside an iteration's try block is
\* caught and the loop continues, the NameError of the never-assigned
\* split included: the handler prints the error block, sets the error
\* flag and the process does not stop.
C6_EveryExceptionCaught ==
  (Ran /\ exc # "none")
    => /\ pc = "loop"
       /\ error = 1
       /\ EndedInHandler
       /\ events[Len(events)] = [op |-> "errline2", exc |-> exc]

C6_Witness ==
  /\ Ran
  /\ n = 1
  /\ split = Unbound
  /\ exc = "NameError"
  /\ pc = "loop"
  /\ error = 1

\* C7: an iteration that raises before or while rendering prints exactly
\* the two-line error block (first line rewinding two lines), sets the
\* error flag to 1 and goes on to the next iteration without calling
\* sleep; sleep is called exactly once in an iteration that rendered a
\* status line, right after the render, and never in one that did not.
C7_ErrorBlockNoSleep ==
  Ran => /\ EventsOf("status") = <<>>
              => /\ exc # "none"
                 /\ ErrorBlockOnly
                 /\ error = 1
                 /\ pc = "loop"
                 /\ EventsOf("sleep") = <<>>
         /\ EventsOf("status") # <<>>
              => /\ Len(EventsOf("status")) = 1
                 /\ Len(EventsOf("sleep")) = 1
                 /\ \E j \in 1..(Len(events) - 1) :
                      /\ events[j].op = "status"
                      /\ events[j + 1].op = "sleep"
                      /\ events[j + 1].secs = TIME_DELAY

\* An iteration that converted the latitude and raised on the longitude
C7_Witness ==
  /\ Ran
  /\ exc = "IndexError"
  /\ Len(EventsOf("convert")) = 2
  /\ EventsOf("status") = <<>>
  /\ ErrorBlockOnly
  /\ EventsOf("sleep") = <<>>

Arg299 == <<"2", ".", "9", "9">>

\* C8 (as claimed): --time 2.99 is accepted by the argument parser and
\* TIME_DELAY is 2; the program does not exit at argument parsing.
C8_TruncatedToTwo ==
  (argTime = Arg299 /\ pc # "parse") => (pc = "loop" /\ TIME_DELAY = 200)

\* C8 (amended): --time 2.99 is rejected by the argument parser: int()
\* raises on "2.99", the program exits with status 2 at argument parsing,
\* the loop is never entered and the program never sleeps, neither 2.99
\* nor 2 seconds.
C8_FractionRejected ==
  (argTime = Arg299 /\ pc # "parse")
    => /\ pc = "exited"
       /\ events = <<[op |-> "exit", status |-> 2]>>
       /\ n = 0
       /\ TIME_DELAY # 200

C8_Witness ==
  /\ argTime = Arg299
  /\ pc = "exited"
  /\ events = <<[op |-> "exit", status |-> 2]>>

\* C9: the poll loop has no terminal state: whatever the flag, the
\* counter and the file (missing, or without a $GPGLL line on the first
\* iteration), every iteration ends with the process still in the loop,
\* which is all that the next iteration needs; the process leaves only
\* before the loop is entered, at argument parsing.
C9_NoTerminalState ==
  /\ n > 0 => (pc = "loop" /\ error \in {0, 1} /\ it \in {0, 1, 2})
  /\ pc = "exited" => (n = 0 /\ ~ArgTime(argTime).ok)

\* The first iteration found no file and the loop goes on
C9_Witness ==
  /\ n = 1
  /\ exc = "FileNotFoundError"
  /\ pc = "loop"
  /\ error = 1
  /\ it = 0

\* C10: an iteration never changes the hemisphere fields (positions 2 and
\* 4): they are rendered and logged as read, and the converted coordinate
\* is the value of the degrees-minutes string alone, without a sign,
\* whatever the hemisphere.
C10_HemisphereUntouched ==
  Ran => /\ \A j \in 1..Len(events) :
              events[j].op = "status"
                => /\ events[j].p2 = Get(split, 2)
                   /\ events[j].p4 = Get(split, 4)
         /\ \A j \in 1..Len(events) :
              events[j].op = "append"
                => /\ events[j].msg.p2 = Get(split, 2)
                   /\ events[j].msg.p4 = Get(split, 4)
                   /\ events[j].msg.p1 =
                        convert_to_decimal_deg(Get(split, 1), "lat").val
                   /\ events[j].msg.p3 =
                        convert_to_decimal_deg(Get(split, 3), "long").val
                   /\ Head(events[j].msg.p1) \in DigitChars
                   /\ Head(events[j].msg.p3) \in DigitChars
         /\ (HasSplit /\ parts # Unbound)
              => \A k \in {2, 4} :
                   Has(split, k) => Get(parts, k) = Get(split, k)

C10_Witness ==
  /\ Ran
  /\ Len(EventsOf("append")) = 1
  /\ EventsOf("append")[1].msg.p2 = <<"S">>
  /\ EventsOf("append")[1].msg.p4 = <<"W">>
  /\ EventsOf("append")[1].msg.p1 = <<"0", ".", "0", "0", "9">>
  /\ Len(EventsOf("status")) = 1
  /\ EventsOf("status")[1].p2 = <<"S">>

NoTimeFlag == argTime = <<>>

\* C11 (as claimed): when -t/--time is not given, the length passed to
\* sleep is the default 1.01 truncated to the integer 1 (100 hundredths of
\* a second); the loop never sleeps 1.01 seconds.
C11_DefaultTruncated ==
  (NoTimeFlag /\ pc = "loop")
    => (TIME_DELAY = 100
        /\ \A k \in 1..Len(events) :
             events[k].op = "sleep" => events[k].secs = 100)

\* C11 (amended): when -t/--time is not given, the length passed to sleep
\* is the float default 1.01 unchanged (101 hundredths of a second), in
\* every iteration that reaches the sleep.
C11_DefaultKeptAsFloat ==
  (NoTimeFlag /\ pc = "loop")
    => (TIME_DELAY = 101
        /\ \A k \in 1..Len(events) :
             events[k].op = "sleep" => events[k].secs = 101)

C11_Witness ==
  /\ NoTimeFlag
  /\ Ran
  /\ \E k \in 1..Len(events) :
       events[k] = [op |-> "sleep", secs |-> 101]

\* C12: the counter is -1 before the first iteration; the k-th iteration
\* (k = 1, 2, ...) uses the value (k - 1) mod 3, whether the iterations so
\* far succeeded or ended in the handler; every call of fancy_waiting made
\* by the loop gets that value, which is 0, 1 or 2.
C12_CounterCycles ==
  /\ n = 0 => it = -1
  /\ n > 0 => (it = (n - 1) % 3 /\ it \in {0, 1, 2})
  /\ \A k \in 1..Len(events) :
       events[k].op = "waiting"
         => (events[k].i = it /\ events[k].i \in {0, 1, 2})

\* The fourth iteration uses 0 again and calls fancy_waiting with it
C12_Witness ==
  /\ n = 4
  /\ it = 0
  /\ error = 0
  /\ \E k \in 1..Len(events) : events[k] = [op |-> "waiting", k |-> 1, i |-> 0]

\* The status line of the last iteration, if any, starts and ends with
\* these escape sequences
StatusUses(evs, start, end) ==
  \A k \in 1..Len(evs) :
    evs[k].op = "status" => (evs[k].start = start /\ evs[k].end = end)

\* C13: a status line is rendered with ESC[2F and ESC[0J when the
\* iteration before it ended in the exception handler, and with ESC[1F and
\* ESC[0K otherwise, the first iteration included; the error flag is 1 at
\* the start of an iteration exactly when the iteration before it ended in
\* the handler, and 0 after an iteration that did not raise.
C13_RewindFollowsHandler ==
  [][n' = n + 1
       => /\ error = 1 <=> EndedInHandler
          /\ IF EndedInHandler
             THEN StatusUses(events', "ESC[2F", "ESC[0J")
             ELSE StatusUses(events', "ESC[1F", "ESC[0K")
          /\ error' = 1 <=> EndedInHandler'
          /\ exc' = "none" => error' = 0]_vars

\* The third iteration renders with the two-line rewind, the second having
\* ended in the handler
C13_Witness ==
  /\ n = 3
  /\ exc = "none"
  /\ error = 0
  /\ \E k \in 1..Len(events) :
       /\ events[k].op = "status"
       /\ events[k].start = "ESC[2F"
       /\ events[k].end = "ESC[0J"

\* The last iteration opened the file and read it to the end
Scanned(evs) == \E k \in 1..Len(evs) : evs[k].op = "scan"

\* ... and no line of it started with $GPGLL
ScannedNoMatch(evs) ==
  \E k \in 1..Len(evs) : evs[k] = [op |-> "scan", matched |-> FALSE]

\* q is list p with at most fields 1 and 3 assigned
SameListAs(q, p) ==
  /\ Len(q) = Len(p)
  /\ \A k \in 1..Len(p) : k \notin {2, 4} => q[k] = p[k]

\* C14: in an iteration where the file opens and has no line that starts
\* with $GPGLL, the steps after the scan work on the list parts was bound
\* to when the iteration began, which is the list kept from the most
\* recent iteration that found such a line (after every iteration parts is
\* the list of that iteration's scan, fields 1 and 3 possibly assigned);
\* when no iteration has found one, reading parts raises NameError and
\* the iteration ends in the handler.
C14_StaleSplitReused ==
  [][(n' = n + 1 /\ ScannedNoMatch(events'))
       => /\ split' = parts
          /\ parts # Unbound => SameListAs(parts', parts)
          /\ HasSplit => SameListAs(parts, split)
          /\ parts = Unbound
               => (exc' = "NameError" /\ EndedInHandler'
                   /\ parts' = Unbound)]_vars

\* An iteration after the first scans a file without a $GPGLL line and
\* works on a list that an earlier iteration left
C14_Witness ==
  /\ n >= 2
  /\ ScannedNoMatch(events)
  /\ HasSplit
  /\ Len(split) >= 5

\* The last line of the file that starts with $GPGLL
LastMatching(file) ==
  LET K == {k \in 1..Len(file) : StartsWith(file[k], GPGLL)}
  IN file[CHOOSE k \in K : \A j \in K : j <= k]

BothGiven(p) ==
  /\ Has(p, 1) /\ Get(p, 1) # <<>>
  /\ Has(p, 3) /\ Get(p, 3) # <<>>

\* What line 74 shows for coordinate field k of the split p
Shown(p, k, axis, i) ==
  IF Get(p, k) = <<>> THEN fancy_waiting(WaitingMsg, i)
  ELSE IF BothGiven(p) THEN convert_to_decimal_deg(Get(p, k), axis).val
  ELSE Get(p, k)

\* C15: in an iteration where the file has one or more lines that start
\* with $GPGLL, the list that line 58 reads is the split of the last such
\* line, and the converter's arguments, the record appended to debug.log
\* and the status line come from that split, whatever the other lines of
\* the file are and whatever parts held before.
C15_LastLineWins ==
  (fnArg.f = "iteration" /\ HasGpgll(fnArg.file))
    => \E want \in {Split(LastMatching(fnArg.file), ",")} :
         /\ fnRes.split = want
         /\ \A k \in 1..Len(fnRes.events) :
              \E ev \in {fnRes.events[k]} :
                /\ ev.op = "convert"
                     => ev.term = Get(want, IF ev.axis = "lat" THEN 1 ELSE 3)
                /\ ev.op = "append"
                     => /\ BothGiven(want)
                        /\ ev.msg.p1 = Shown(want, 1, "lat", 0)
                        /\ ev.msg.p2 = Get(want, 2)
                        /\ ev.msg.p3 = Shown(want, 3, "long", 0)
                        /\ ev.msg.p4 = Get(want, 4)
                /\ ev.op = "status"
                     => /\ ev.p1 = Shown(want, 1, "lat", 0)
                        /\ ev.p2 = Get(want, 2)
                        /\ ev.p3 = Shown(want, 3, "long", 0)
                        /\ ev.p4 = Get(want, 4)

\* A file of two different $GPGLL lines read while parts holds an earlier
\* list; the second line is converted, logged and rendered
C15_Witness ==
  /\ fnArg.f = "iteration"
  /\ Len(fnArg.file) = 2
  /\ StartsWith(fnArg.file[1], GPGLL)
  /\ StartsWith(fnArg.file[2], GPGLL)
  /\ fnArg.file[1] # fnArg.file[2]
  /\ BothGiven(Split(fnArg.file[1], ","))
  /\ fnArg.before # Unbound
  /\ \E k \in 1..Len(fnRes.events) : fnRes.events[k].op = "append"
  /\ \E k \in 1..Len(fnRes.events) : fnRes.events[k].op = "status"

\* No status line, no record appended and no sleep among the events
Silent(evs) ==
  \A k \in 1..Len(evs) : evs[k].op \notin {"status", "append", "sleep"}

OneEmpty(p) ==
  /\ Has(p, 1)
  /\ Has(p, 3)
  /\ (Get(p, 1) = <<>>) # (Get(p, 3) = <<>>)

\* Field k as line 74 prints it when nothing was converted
Unconverted(p, k, i) ==
  IF Get(p, k) = <<>> THEN fancy_waiting(WaitingMsg, i) ELSE Get(p, k)

\* C17: in an iteration whose split has exactly one of the two coordinate
\* fields empty, convert_to_decimal_deg is not called and nothing is
\* logged; the status line shows the waiting text for the empty field and
\* the other field exactly as it is in the split, in degrees and minutes;
\* the converter is called only in iterations where both fields of the
\* split are non-empty.
C17_OneEmptyShowsRaw ==
  (Ran /\ HasSplit)
    => /\ OneEmpty(split)
          => \A k \in 1..Len(events) :
               /\ events[k].op \notin {"convert", "append"}
               /\ events[k].op = "status"
                    => /\ events[k].p1 = Unconverted(split, 1, it)
                       /\ events[k].p3 = Unconverted(split, 3, it)
       /\ (\E k \in 1..Len(events) : events[k].op = "convert")
          => BothGiven(split)

\* A latitude with an empty longitude: the status line shows 4807.038 and
\* the waiting text
C17_Witness ==
  /\ Ran
  /\ exc = "none"
  /\ OneEmpty(split)
  /\ Get(split, 1) = Lat4807
  /\ \E k \in 1..Len(events) :
       /\ events[k].op = "status"
       /\ events[k].p1 = Lat4807
       /\ events[k].p3 = fancy_waiting(WaitingMsg, it)

====
